---- MODULE Spec2Model ----
(***************************************************************************)
(* Model of Ppt-combine: the command-line pipeline                         *)
(* (src/combine_powerpoints.py) and the desktop front-end                  *)
(* (src/combine_powerpoints_gui.py).                                       *)
(*                                                                         *)
(* File names are sequences of character codes, so that sorting by name,   *)
(* the "~$" lock prefix, the glob patterns and the suffix dispatch are     *)
(* computed as the code computes them.  Lengths are in canvas units; the   *)
(* fit is computed in exact rationals <<numerator, denominator>> (the code *)
(* uses doubles: a result may differ from the exact one by one ulp).       *)
(***************************************************************************)
EXTENDS Integers, Sequences, FiniteSets, TLC

\* ------------------------------------------------------------------ bounds
MaxFiles == 3       \* files in the input folder
MaxImgDim == 3      \* pixel width / height of a raster image
MaxRuns == 2        \* Combine clicks in one GUI session
MaxSessionFiles == 2  \* files in the input folder of a session of several runs
MaxCanvasDim == 4   \* canvas width / height when the fit is explored on its own
MaxShapes == 2      \* shapes of a source slide when the safe copy is explored on its own

\* ------------------------------------------------------------- file names
Dot == 46

PptxPattern == <<46, 112, 112, 116, 120>>   \* ".pptx"
PdfPattern == <<46, 112, 100, 102>>         \* ".pdf"
LockPrefix == <<126, 36>>                   \* "~$"

\* The folder contents the model draws from: name, and number of slides/pages.
FilePool ==
  { [name |-> <<97, 46, 112, 112, 116, 120>>,          n |-> 2],   \* a.pptx
    [name |-> <<98, 46, 112, 100, 102>>,               n |-> 3],   \* b.pdf
    [name |-> <<99, 46, 112, 112, 116, 120>>,          n |-> 1],   \* c.pptx
    [name |-> <<66, 46, 112, 100, 102>>,               n |-> 1],   \* B.pdf
    [name |-> <<126, 36, 97, 46, 112, 112, 116, 120>>, n |-> 1],   \* ~$a.pptx
    [name |-> <<97, 46, 116, 120, 116>>,               n |-> 1] }  \* a.txt

Min(a, b) == IF a < b THEN a ELSE b

\* str.startswith
StartsWith(s, p) ==
  /\ Len(p) <= Len(s)
  /\ \A i \in 1..Len(p) : s[i] = p[i]

\* fnmatch of "*<suffix>" on a POSIX path: the name ends with the suffix.
EndsWith(s, suf) ==
  /\ Len(suf) <= Len(s)
  /\ \A i \in 1..Len(suf) : s[Len(s) - Len(suf) + i] = suf[i]

\* Python's str "<": lexicographic by code point, a proper prefix first.
NameLess(a, b) ==
  \E i \in 1..(Min(Len(a), Len(b)) + 1) :
    /\ \A j \in 1..(i - 1) : a[j] = b[j]
    /\ \/ i > Len(a) /\ i <= Len(b)
       \/ i <= Len(a) /\ i <= Len(b) /\ a[i] < b[i]

\* Path.suffix: from the last dot on (empty when the name has no dot past
\* its first character).
Suffix(name) ==
  LET dots == { i \in 2..Len(name) : name[i] = Dot }
  IN IF dots = {} THEN <<>>
     ELSE LET d == CHOOSE i \in dots : \A j \in dots : j <= i
          IN SubSeq(name, d, Len(name))

\* str.lower on ASCII.
Lower(s) == [i \in 1..Len(s) |-> IF s[i] >= 65 /\ s[i] <= 90 THEN s[i] + 32 ELSE s[i]]

IsPptx(f) == Lower(Suffix(f.name)) = PptxPattern
IsPdf(f) == Lower(Suffix(f.name)) = PdfPattern

\* input_path.glob(ext)
Glob(d, pattern) == { f \in d : EndsWith(f.name, pattern) }

\* sorted(files, key=lambda p: p.name); names in one folder are distinct.
RECURSIVE SortedByName(_)
SortedByName(S) ==
  IF S = {} THEN <<>>
  ELSE LET m == CHOOSE x \in S : \A y \in S \ {x} : NameLess(x.name, y.name)
       IN <<m>> \o SortedByName(S \ {m})

\* Faulty variant of the lock filter: nothing is dropped.
KeepsLockFiles(f) == TRUE

NotLock(f) == ~StartsWith(f.name, LockPrefix)

\* Faulty variant of the collector: the two globs are sorted one by one, so
\* the list is grouped by kind.
CollectGroupedByKind(d) ==
  SelectSeq(SortedByName(Glob(d, PptxPattern)) \o SortedByName(Glob(d, PdfPattern)), NotLock)

\* The file collector: glob both extensions, sort by name, drop lock files.
CollectFiles(d) ==
  SelectSeq(SortedByName(Glob(d, PptxPattern) \cup Glob(d, PdfPattern)), NotLock)

\* ------------------------------------------------------------- aspect fit
\* Rationals <<num, den>>, den > 0.
RatEq(p, q) == p[1] * q[2] = q[1] * p[2]
RatLeq(p, q) == p[1] * q[2] <= q[1] * p[2]
RatLess(p, q) == p[1] * q[2] < q[1] * p[2]

\* Faulty variant of the fit: the comparison of the two ratios is reversed.
FitPlacementReversed(W, H, Cw, Ch) ==
  IF W * Ch < Cw * H
  THEN [axis |-> "width",
        new_w |-> <<Cw, 1>>,
        new_h |-> <<Cw * H, W>>,
        left |-> <<0, 1>>,
        top |-> <<Ch * W - Cw * H, 2 * W>>]
  ELSE [axis |-> "height",
        new_h |-> <<Ch, 1>>,
        new_w |-> <<Ch * W, H>>,
        top |-> <<0, 1>>,
        left |-> <<Cw * H - Ch * W, 2 * H>>]

\* The fit of an image W x H (H > 0) into a canvas Cw x Ch (Ch > 0).
FitPlacement(W, H, Cw, Ch) ==
  IF W * Ch > Cw * H
  THEN \* image is wider: fit to width
       [axis |-> "width",
        new_w |-> <<Cw, 1>>,
        new_h |-> <<Cw * H, W>>,
        left |-> <<0, 1>>,
        top |-> <<Ch * W - Cw * H, 2 * W>>]
  ELSE \* image is taller or same: fit to height
       [axis |-> "height",
        new_h |-> <<Ch, 1>>,
        new_w |-> <<Ch * W, H>>,
        top |-> <<0, 1>>,
        left |-> <<Cw * H - Ch * W, 2 * H>>]

\* Faulty variant of the matching: the width is multiplied by the ratio.
MatchHeightsInverted(W, H, Cw) == {(Cw * W) \div H}

\* int(prs.slide_width / img_ratio), W > 0, H > 0: the floor of Cw*H/W; when
\* the exact quotient is an integer k the double quotient may round just
\* below it and int() then gives k - 1.
MatchHeights(W, H, Cw) ==
  LET k == (Cw * H) \div W
  IN IF (Cw * H) % W = 0 /\ k > 0 THEN {k, k - 1} ELSE {k}

\* The canvas of Presentation(): the default template is 4:3
\* (9144000 x 6858000 EMU), here in units of 762000 EMU.
BlankCanvas == <<12, 9>>
\* Canvas sizes of the native presentations of the folder (4:3 and 16:9).
CanvasSizes == {<<12, 9>>, <<16, 9>>}

ImgDims == (0..MaxImgDim) \X (0..MaxImgDim)
\* The images the pipeline's pages render to: zero height, zero width, wide,
\* tall, and the ratio of the blank canvas.
PageImages == {<<1, 0>>, <<0, 1>>, <<2, 1>>, <<1, 2>>, <<4, 3>>}

NoPlacement ==
  [axis |-> "none", new_w |-> <<0, 1>>, new_h |-> <<0, 1>>, left |-> <<0, 1>>, top |-> <<0, 1>>]
NoFit ==
  [W |-> 0, H |-> 0, before |-> <<0, 0>>, after |-> <<0, 0>>,
   resized |-> FALSE, outcome |-> "none", fit |-> NoPlacement]

\* The body of the page loop of process_pdf (CLI) for an image d on canvas cv:
\* the slide is created, the image encoded, then fitted and placed.  io is
\* "ok" or "savefails" (img.save raises).
CliInsertion(d, cv, io) ==
  [NoFit EXCEPT
     !.W = d[1], !.H = d[2], !.before = cv, !.after = cv,
     !.outcome = IF io = "savefails" THEN "raised"
                 ELSE IF d[2] = 0 \/ cv[2] = 0 THEN "zerodiv"
                 ELSE "placed",
     !.fit = IF io = "ok" /\ d[2] > 0 /\ cv[2] > 0
             THEN FitPlacement(d[1], d[2], cv[1], cv[2]) ELSE NoPlacement]

\* add_fitted_image_slide for an image d on canvas cv.  h is the height int()
\* yields when the aspect ratio is matched; io is "ok", "openfails" (the image
\* cannot be read) or "placefails" (encoding or add_picture raises).
GuiInsertion(d, cv, match, h, io) ==
  LET resized == match /\ io # "openfails" /\ d[2] > 0 /\ d[1] > 0
      after == IF resized THEN <<cv[1], h>> ELSE cv
  IN [NoFit EXCEPT
        !.W = d[1], !.H = d[2], !.before = cv, !.after = after,
           !.resized = resized,
        !.outcome = IF io = "openfails" THEN "raised"
                    ELSE IF d[2] = 0 THEN "skipped"
                    ELSE IF after[2] = 0 THEN "zerodiv"
                    ELSE IF io = "placefails" THEN "raised"
                    ELSE "placed",
        !.fit = IF io = "ok" /\ d[2] > 0 /\ after[2] > 0
                THEN FitPlacement(d[1], d[2], after[1], after[2]) ELSE NoPlacement]

\* The heights the matching may set for image d on a canvas of width Cw.
HeightChoices(d, Cw) == IF d[1] > 0 /\ d[2] > 0 THEN MatchHeights(d[1], d[2], Cw) ELSE {0}

\* ------------------------------------------------------------------ state
VARIABLES
  variant,            \* "cli" (combine_powerpoints.py) or "gui" (combine_powerpoints_gui.py)
  dirExists,          \* the input folder exists
  dir,                \* the files of the input folder
  pdfSupport,         \* PDF_SUPPORT: pdf2image was imported
  canUseAppleScript,  \* self.can_use_applescript
  convertImages,      \* self.convert_to_images
  pc,                 \* position of the main thread (cli) or of the latest worker (gui)
  files,              \* the collected list
  fileIdx,            \* index in files of the file being (or next to be) processed
  pageIdx,            \* slides/pages of the current file already handled
  curN,               \* slides/pages of the current file
  viaRaster,          \* the current .pptx is inserted from rendered images
  rendered,           \* what the rendering of the current .pptx gave, "none" if not tried
  slides,             \* the accumulator's slide sequence
  canvas,             \* the accumulator's <<slide_width, slide_height>>
  lastFit,            \* the last raster insertion: its inputs and outcome
  outputWritten,      \* save() wrote the output file
  saveCalled,         \* save() was called
  report,             \* "none", "success" or "failure": what the run reported
  exitCode,           \* sys.exit code of the CLI, -1 while running
  failed,             \* names of the files whose transfer failed
  resizes,            \* slide counts of the accumulator on entry to each resizing insertion
  fieldsSet,          \* the GUI's folder and file-name fields are filled in
  cancelFlag,         \* self.cancel_flag
  observedCancel,     \* the latest worker saw cancel_flag set
  combineButton,      \* state of self.combine_button
  cancelButton,       \* state of self.cancel_button
  progressOn,         \* self.progress is running
  uiQueue,            \* callbacks scheduled with root.after, not yet run
  dialogs,            \* message boxes shown so far in this run
  runs,               \* workers started so far
  runLimit,           \* Combine clicks the session explores
  cancelling,         \* a cancel_operation call has logged and not yet set the flag
  cancelOf,           \* the value of runs when the latest Cancel click was made
  lateSlides,         \* slides appended by steps that began with the flag set (up to 2)
  directUi,           \* a worker thread has used a widget or Tk variable itself
  tailTwo,            \* earlier workers that still have two finally-callbacks to schedule
  tailOne,            \* earlier workers that still have one finally-callback to schedule
  shapes,             \* copy_slide_elements: the shapes of source_slide
  shapeIdx,           \* copy_slide_elements: shapes already handled
  target,             \* copy_slide_elements: the shapes added to target_slide
  warnings            \* copy_slide_elements: warnings printed

runVars == <<pc, files, fileIdx, pageIdx, curN, viaRaster, rendered, slides, canvas, lastFit,
             outputWritten, saveCalled, report, exitCode, failed, resizes>>
copyVars == <<shapes, shapeIdx, target, warnings>>
envVars == <<variant, dirExists, dir, pdfSupport, canUseAppleScript, convertImages, runLimit,
             copyVars>>
guiVars == <<fieldsSet, cancelFlag, observedCancel, combineButton, cancelButton,
             progressOn, uiQueue, dialogs, runs, cancelling, lateSlides, directUi, cancelOf, tailTwo, tailOne>>
vars == <<envVars, runVars, guiVars>>

Folders == { d \in SUBSET FilePool : Cardinality(d) <= MaxFiles }

\* The state of a run before it has done anything.
FreshRun ==
  /\ files = <<>>
  /\ fileIdx = 0
  /\ pageIdx = 0
  /\ curN = 0
  /\ viaRaster = FALSE
  /\ rendered = "none"
  /\ slides = <<>>
  /\ canvas = <<0, 0>>
  /\ lastFit = NoFit
  /\ outputWritten = FALSE
  /\ saveCalled = FALSE
  /\ report = "none"
  /\ exitCode = -1
  /\ failed = {}
  /\ resizes = <<>>

\* A new run starts from nothing: combined_prs and the loop state are locals.
ResetRun ==
  /\ files' = <<>>
  /\ fileIdx' = 0
  /\ pageIdx' = 0
  /\ curN' = 0
  /\ viaRaster' = FALSE
  /\ rendered' = "none"
  /\ slides' = <<>>
  /\ canvas' = <<0, 0>>
  /\ lastFit' = NoFit
  /\ outputWritten' = FALSE
  /\ saveCalled' = FALSE
  /\ report' = "none"
  /\ exitCode' = -1
  /\ failed' = {}
  /\ resizes' = <<>>

\* No call of copy_slide_elements is followed shape by shape.
NoCopy ==
  /\ shapes = <<>>
  /\ shapeIdx = 0
  /\ target = <<>>
  /\ warnings = 0

InitEnv ==
  /\ NoCopy
  /\ dirExists \in BOOLEAN
  /\ dir \in (IF dirExists THEN Folders ELSE {{}})
  /\ pdfSupport \in BOOLEAN

InitGuiIdle ==
  /\ fieldsSet = FALSE
  /\ cancelFlag = FALSE
  /\ observedCancel = FALSE
  /\ combineButton = "normal"
  /\ cancelButton = "disabled"
  /\ progressOn = FALSE
  /\ uiQueue = <<>>
  /\ dialogs = {}
  /\ runs = 0
  /\ cancelling = FALSE
  /\ cancelOf = 0
  /\ lateSlides = 0
  /\ directUi = FALSE
  /\ tailTwo = 0
  /\ tailOne = 0

InitCli ==
  /\ variant = "cli"
  /\ InitEnv
  /\ runLimit = 0
  /\ canUseAppleScript = FALSE
  /\ convertImages = FALSE
  /\ pc = "cli_main"
  /\ FreshRun
  /\ InitGuiIdle

\* -------------------------------------------------- combine_powerpoints.py
\* A slide of the accumulator: the file and the slide or page it was made for.
Slide(f, k, kind) == [src |-> f.name, idx |-> k, kind |-> kind]

\* Faulty variant of the base: an empty presentation although the first file
\* is skipped by the loop.
NoBaseSlides(f) == <<>>

\* The slides of a presentation opened as the base.
BaseSlides(f) == [k \in 1..f.n |-> Slide(f, k, "base")]

\* Faulty variant of the failure exit: main exits with code 0.
CliFailExitsZero ==
  /\ report' = "failure"
  /\ exitCode' = 0
  /\ pc' = "exited"

\* return False from combine_powerpoints, then sys.exit(1) in main.
CliFail ==
  /\ report' = "failure"
  /\ exitCode' = 1
  /\ pc' = "exited"

\* main() up to the file list: the folder check and the file collector.
CliCollect ==
  /\ variant = "cli" /\ pc = "cli_main"
  /\ IF ~dirExists
     THEN CliFail /\ UNCHANGED files
     ELSE /\ files' = CollectFiles(dir)
          /\ IF files' = <<>>
             THEN CliFail
             ELSE pc' = "cli_base" /\ UNCHANGED <<report, exitCode>>
  /\ UNCHANGED <<fileIdx, pageIdx, curN, viaRaster, rendered, slides, canvas, lastFit,
                 outputWritten, saveCalled, failed, resizes>>
  /\ UNCHANGED <<envVars, guiVars>>

\* The base selector.
CliBase ==
  /\ variant = "cli" /\ pc = "cli_base"
  /\ LET first == files[1] IN
     IF IsPptx(first)
     THEN \/ \E cv \in CanvasSizes :
               /\ slides' = BaseSlides(first)
               /\ canvas' = cv
               /\ fileIdx' = 2
               /\ pc' = "cli_loop"
               /\ UNCHANGED <<report, exitCode, failed>>
          \/ \* Presentation(first_file) raises
             /\ CliFail
             /\ failed' = failed \cup {first.name}
             /\ UNCHANGED <<slides, canvas, fileIdx>>
     ELSE /\ slides' = <<>>
          /\ canvas' = BlankCanvas
          /\ fileIdx' = 1
          /\ pc' = "cli_loop"
          /\ UNCHANGED <<report, exitCode, failed>>
  /\ UNCHANGED <<files, pageIdx, curN, viaRaster, rendered, lastFit, outputWritten, saveCalled, resizes>>
  /\ UNCHANGED <<envVars, guiVars>>

\* The head of the transfer loop: the next file is opened or converted.
CliNextFile ==
  /\ variant = "cli" /\ pc = "cli_loop"
  /\ IF fileIdx > Len(files)
     THEN pc' = "cli_save" /\ UNCHANGED <<fileIdx, pageIdx, curN, failed>>
     ELSE LET f == files[fileIdx]
              skip == /\ failed' = failed \cup {f.name}
                      /\ fileIdx' = fileIdx + 1
                      /\ UNCHANGED <<pc, pageIdx, curN>>
              open(to) == /\ pageIdx' = 0
                          /\ curN' = f.n
                          /\ IF f.n = 0
                             THEN fileIdx' = fileIdx + 1 /\ UNCHANGED pc
                             ELSE pc' = to /\ UNCHANGED fileIdx
                          /\ UNCHANGED failed
          IN IF IsPptx(f)
             THEN \/ open("cli_copy")
                  \/ skip    \* Presentation(file_path) raises
             ELSE IF ~pdfSupport
                  THEN skip
                  ELSE \/ open("cli_pdf")
                       \/ skip    \* convert_from_path raises
  /\ lastFit' = NoFit     \* the page loop's locals are gone
  /\ UNCHANGED <<files, viaRaster, rendered, slides, canvas, outputWritten, saveCalled,
                 report, exitCode, resizes>>
  /\ UNCHANGED <<envVars, guiVars>>

\* Leaving one iteration of a per-slide loop: on to the next slide, or, after
\* the last one or an exception, on to the next file.
StepDone(loopPc, abort) ==
  /\ pageIdx' = pageIdx + 1
  /\ IF abort \/ pageIdx + 1 >= curN
     THEN pc' = loopPc /\ fileIdx' = fileIdx + 1
     ELSE UNCHANGED <<pc, fileIdx>>
  /\ failed' = IF abort THEN failed \cup {files[fileIdx].name} ELSE failed

\* One slide of a source presentation: a new slide from the blank layout, then
\* copy_slide_elements.
CliCopySlide ==
  /\ variant = "cli" /\ pc = "cli_copy"
  /\ LET f == files[fileIdx] IN
     \/ /\ slides' = Append(slides, Slide(f, pageIdx + 1, "copy"))
        /\ StepDone("cli_loop", FALSE)
     \/ \* the slide is created, then reading the source slide raises
        /\ slides' = Append(slides, Slide(f, pageIdx + 1, "copy"))
        /\ StepDone("cli_loop", TRUE)
     \/ \* add_slide raises
        /\ UNCHANGED slides
        /\ StepDone("cli_loop", TRUE)
  /\ UNCHANGED <<files, curN, viaRaster, rendered, canvas, lastFit, outputWritten, saveCalled,
                 report, exitCode, resizes>>
  /\ UNCHANGED <<envVars, guiVars>>

\* Faulty variant of the page loop: when a page fails, the slides the file
\* has added are taken out again.
CliPdfPageRollsBack ==
  /\ variant = "cli" /\ pc = "cli_pdf"
  /\ \E d \in PageImages, io \in {"ok", "savefails"} :
       LET ins == CliInsertion(d, canvas, io) IN
       /\ slides' = IF ins.outcome = "placed"
                     THEN Append(slides, Slide(files[fileIdx], pageIdx + 1, "pdf"))
                     ELSE SelectSeq(slides, LAMBDA sl : sl.src # files[fileIdx].name)
       /\ lastFit' = ins
       /\ StepDone("cli_loop", ins.outcome # "placed")
  /\ UNCHANGED <<files, curN, viaRaster, rendered, canvas, outputWritten, saveCalled,
                 report, exitCode, resizes>>
  /\ UNCHANGED <<envVars, guiVars>>

\* One page of process_pdf: the slide is created first, then the image is
\* encoded, fitted and placed.
CliPdfPage ==
  /\ variant = "cli" /\ pc = "cli_pdf"
  /\ \E d \in PageImages, io \in {"ok", "savefails"} :
       LET ins == CliInsertion(d, canvas, io) IN
       /\ slides' = Append(slides, Slide(files[fileIdx], pageIdx + 1, "pdf"))
       /\ lastFit' = ins
       /\ StepDone("cli_loop", ins.outcome # "placed")
  /\ UNCHANGED <<files, curN, viaRaster, rendered, canvas, outputWritten, saveCalled,
                 report, exitCode, resizes>>
  /\ UNCHANGED <<envVars, guiVars>>

\* Faulty variant of the save step: the error of save is swallowed.
CliSaveIgnoresError ==
  /\ variant = "cli" /\ pc = "cli_save"
  /\ saveCalled' = TRUE
  /\ pc' = "exited"
  /\ outputWritten' \in BOOLEAN
  /\ report' = "success"
  /\ exitCode' = 0
  /\ UNCHANGED <<files, fileIdx, pageIdx, curN, viaRaster, rendered, slides, canvas, lastFit,
                 failed, resizes>>
  /\ UNCHANGED <<envVars, guiVars>>

\* combined_prs.save, the return value and main's sys.exit.
CliSave ==
  /\ variant = "cli" /\ pc = "cli_save"
  /\ saveCalled' = TRUE
  /\ pc' = "exited"
  /\ \/ outputWritten' = TRUE /\ report' = "success" /\ exitCode' = 0
     \/ outputWritten' = FALSE /\ report' = "failure" /\ exitCode' = 1
  /\ UNCHANGED <<files, fileIdx, pageIdx, curN, viaRaster, rendered, slides, canvas, lastFit,
                 failed, resizes>>
  /\ UNCHANGED <<envVars, guiVars>>

CliNext == CliCollect \/ CliBase \/ CliNextFile \/ CliCopySlide \/ CliPdfPage \/ CliSave

\* ---------------------------------------------- combine_powerpoints_gui.py
InitGui ==
  /\ variant = "gui"
  /\ InitEnv
  /\ runLimit = 1
  /\ canUseAppleScript \in BOOLEAN
  /\ convertImages \in BOOLEAN
  /\ pc = "idle"
  /\ FreshRun
  /\ InitGuiIdle

BodyPcs == {"gui_collect", "gui_base", "gui_loop", "gui_raster", "gui_copy", "gui_pdf",
            "gui_save", "gui_finally"}

\* Worker threads that have entered do_combine and not yet left it.
ActiveWorkers == (IF pc \in BodyPcs THEN 1 ELSE 0) + tailTwo + tailOne

\* browse_input_folder / browse_output_folder: the fields get their values.
BrowseFolders ==
  /\ variant = "gui" /\ ~fieldsSet
  /\ fieldsSet' = TRUE
  /\ UNCHANGED <<cancelFlag, observedCancel, combineButton, cancelButton, progressOn,
                 uiQueue, dialogs, runs, cancelling, lateSlides, directUi, cancelOf, tailTwo, tailOne>>
  /\ UNCHANGED <<envVars, runVars>>

\* The Combine button's command, combine_powerpoints: it validates the
\* fields, clears the flag, toggles the buttons and starts a worker thread.
ClickCombine ==
  /\ variant = "gui" /\ combineButton = "normal" /\ runs < runLimit
  /\ IF ~fieldsSet
     THEN /\ dialogs' = dialogs \cup {"fieldError"}
          /\ UNCHANGED <<runVars, cancelFlag, observedCancel, combineButton, cancelButton,
                         progressOn, runs, lateSlides>>
     ELSE /\ cancelFlag' = FALSE
          /\ combineButton' = "disabled"
          /\ cancelButton' = "normal"
          /\ progressOn' = TRUE
          /\ runs' = runs + 1
          /\ observedCancel' = FALSE
          /\ dialogs' = {}
          /\ pc' = "gui_collect"
          /\ lateSlides' = 0
          /\ ResetRun
  /\ UNCHANGED <<fieldsSet, uiQueue, cancelling, directUi, cancelOf, tailTwo, tailOne>>
  /\ UNCHANGED envVars

\* The Cancel button's command, cancel_operation, up to the end of its
\* log_status: root.update() there handles the pending events before the
\* flag is set.
CancelBegin ==
  /\ variant = "gui" /\ cancelButton = "normal" /\ ~cancelling
  /\ cancelling' = TRUE
  /\ cancelOf' = runs
  /\ UNCHANGED <<fieldsSet, cancelFlag, observedCancel, combineButton, cancelButton,
                 progressOn, uiQueue, dialogs, runs, tailTwo, tailOne, lateSlides, directUi>>
  /\ UNCHANGED <<envVars, runVars>>

\* The rest of cancel_operation: the flag is set, the button disabled.
CancelEnd ==
  /\ variant = "gui" /\ cancelling
  /\ cancelling' = FALSE
  /\ cancelFlag' = TRUE
  /\ cancelButton' = "disabled"
  /\ UNCHANGED <<fieldsSet, observedCancel, combineButton, progressOn, uiQueue, dialogs,
                 runs, tailTwo, tailOne, cancelOf, lateSlides, directUi>>
  /\ UNCHANGED <<envVars, runVars>>

\* The interface thread runs the oldest callback scheduled with root.after.
UiRunCallback ==
  /\ variant = "gui" /\ uiQueue # <<>>
  /\ uiQueue' = Tail(uiQueue)
  /\ LET cb == Head(uiQueue) IN
     /\ combineButton' = IF cb = "enableCombine" THEN "normal" ELSE combineButton
     /\ cancelButton' = IF cb = "disableCancel" THEN "disabled" ELSE cancelButton
     /\ progressOn' = IF cb = "stopProgress" THEN FALSE ELSE progressOn
     /\ dialogs' = IF cb \in {"showinfo", "showerror"} THEN dialogs \cup {cb} ELSE dialogs
  /\ UNCHANGED <<fieldsSet, cancelFlag, observedCancel, runs, cancelling, lateSlides, directUi, cancelOf, tailTwo, tailOne>>
  /\ UNCHANGED <<envVars, runVars>>

guiRest == <<fieldsSet, cancelFlag, combineButton, cancelButton, progressOn, dialogs,
             runs, cancelling, tailTwo, tailOne>>

\* do_combine up to the file list.  The worker reads the Tk variables of the
\* fields itself; every later step of it calls log_status, which edits the
\* log widget and calls root.update().
GuiCollect ==
  /\ variant = "gui" /\ pc = "gui_collect"
  /\ files' = CollectFiles(dir)
  /\ IF files' = <<>>
     THEN /\ uiQueue' = Append(uiQueue, "showerror")
          /\ report' = "failure"
          /\ pc' = "gui_finally"
     ELSE /\ pc' = "gui_base"
          /\ UNCHANGED <<uiQueue, report>>
  /\ UNCHANGED <<fileIdx, pageIdx, curN, viaRaster, rendered, slides, canvas, lastFit,
                 outputWritten, saveCalled, exitCode, failed, resizes>>
  /\ directUi' = TRUE    \* self.input_folder.get() etc.; log_status from here on
  /\ UNCHANGED <<envVars, guiRest, observedCancel, cancelOf, lateSlides>>

\* The base selector of do_combine; a base that cannot be loaded is re-raised
\* to the handler at the end of do_combine.
GuiBase ==
  /\ variant = "gui" /\ pc = "gui_base"
  /\ LET first == files[1] IN
     IF IsPptx(first)
     THEN \/ \E cv \in CanvasSizes :
               /\ slides' = BaseSlides(first)
               /\ canvas' = cv
               /\ fileIdx' = 2
               /\ pc' = "gui_loop"
               /\ UNCHANGED <<report, uiQueue, failed>>
          \/ /\ uiQueue' = Append(uiQueue, "showerror")
             /\ report' = "failure"
             /\ pc' = "gui_finally"
             /\ failed' = failed \cup {first.name}
             /\ UNCHANGED <<slides, canvas, fileIdx>>
     ELSE /\ slides' = <<>>
          /\ canvas' = BlankCanvas
          /\ fileIdx' = 1
          /\ pc' = "gui_loop"
          /\ UNCHANGED <<report, uiQueue, failed>>
  /\ UNCHANGED <<files, pageIdx, curN, viaRaster, rendered, lastFit, outputWritten, saveCalled,
                 exitCode, resizes>>
  /\ UNCHANGED <<envVars, guiRest, observedCancel, cancelOf, lateSlides, directUi>>

\* Faulty variant of is_very_first: the test of the file index is missing.
StartedBlank == ~IsPptx(files[1])

\* Faulty variant of is_very_first: `started_blank and` is missing, so the
\* first file of the loop counts even when the run started from a base file.
IsFirstOfLoop == fileIdx = (IF IsPptx(files[1]) THEN 2 ELSE 1)
\* started_blank and i == 0
IsVeryFirst == ~IsPptx(files[1]) /\ fileIdx = 1

\* What convert_pptx_to_images_macos and the search for its images can give.
RenderOutcomes == {"images", "failed", "noimage"}

\* Faulty variant of the strategy: the mode alone decides.
PptxStrategyNoFallback(outcome) == IF convertImages THEN "gui_raster" ELSE "gui_copy"

\* The strategy for a .pptx of the loop: rendered images when the mode is on,
\* PowerPoint is there and the rendering gave images; the safe copy otherwise.
PptxStrategy(outcome) ==
  IF convertImages /\ canUseAppleScript /\ outcome = "images" THEN "gui_raster" ELSE "gui_copy"

\* The head of the transfer loop of do_combine: the cancellation check, then
\* the next file is rendered, opened or converted.
GuiNextFile ==
  /\ variant = "gui" /\ pc = "gui_loop"
  /\ IF fileIdx > Len(files)
     THEN /\ pc' = "gui_save"
          /\ rendered' = "none"
          /\ UNCHANGED <<fileIdx, pageIdx, curN, viaRaster, failed, observedCancel,
                         report, uiQueue>>
     ELSE IF cancelFlag
     THEN /\ pc' = "gui_save"
          /\ observedCancel' = TRUE
          /\ rendered' = "none"
          /\ UNCHANGED <<fileIdx, pageIdx, curN, viaRaster, failed, report, uiQueue>>
     ELSE LET f == files[fileIdx]
              skip == /\ failed' = failed \cup {f.name}
                      /\ fileIdx' = fileIdx + 1
                      /\ UNCHANGED <<pc, pageIdx, curN, viaRaster>>
              open(to) ==
                      /\ pageIdx' = 0
                      /\ curN' = f.n
                      /\ viaRaster' = (to = "gui_raster")
                      /\ IF f.n = 0
                         THEN fileIdx' = fileIdx + 1 /\ UNCHANGED pc
                         ELSE pc' = to /\ UNCHANGED fileIdx
                      /\ UNCHANGED failed
          IN /\ UNCHANGED observedCancel
             /\ IF IsPptx(f)
                THEN IF convertImages /\ canUseAppleScript
                     THEN \/ \E outcome \in RenderOutcomes :
                               /\ rendered' = outcome
                               /\ UNCHANGED <<report, uiQueue>>
                               /\ \/ open(PptxStrategy(outcome))
                                  \/ \* the safe copy's Presentation(file_path) raises
                                     outcome # "images" /\ skip
                          \/ \* rmtree or makedirs of the image folder raises: no
                             \* handler but the one at the end of do_combine
                             /\ rendered' = "none"
                             /\ failed' = failed \cup {f.name}
                             /\ uiQueue' = Append(uiQueue, "showerror")
                             /\ report' = "failure"
                             /\ pc' = "gui_finally"
                             /\ UNCHANGED <<fileIdx, pageIdx, curN, viaRaster>>
                     ELSE /\ rendered' = "none"
                          /\ UNCHANGED <<report, uiQueue>>
                          /\ \/ open(PptxStrategy("none"))
                             \/ skip      \* Presentation(file_path) raises
                ELSE /\ rendered' = "none"
                     /\ UNCHANGED <<report, uiQueue>>
                     /\ IF ~pdfSupport
                        THEN skip
                        ELSE \/ open("gui_pdf")
                             \/ skip    \* convert_from_path raises
  /\ lastFit' = NoFit     \* the page loop's locals are gone
  /\ UNCHANGED <<files, slides, canvas, outputWritten, saveCalled, exitCode, resizes>>
  /\ UNCHANGED <<envVars, guiRest, cancelOf, lateSlides, directUi>>

\* The effect of add_fitted_image_slide on the accumulator.
AddFittedImageSlide(kind, d, match, h, io) ==
  LET ins == GuiInsertion(d, canvas, match, h, io) IN
  /\ slides' = Append(slides, Slide(files[fileIdx], pageIdx + 1, kind))
  /\ canvas' = ins.after
  /\ resizes' = IF ins.resized THEN Append(resizes, Len(slides)) ELSE resizes
  /\ lastFit' = ins

\* Faulty variant of the image loop: the `continue` after the last image is
\* missing, so the file goes on to the safe copy as well.
GuiRasterImageNoContinue ==
  /\ variant = "gui" /\ pc = "gui_raster"
  /\ IF cancelFlag
     THEN /\ observedCancel' = TRUE
          /\ pc' = "gui_loop"
          /\ fileIdx' = fileIdx + 1
          /\ UNCHANGED <<pageIdx, failed, slides, canvas, resizes, lastFit>>
     ELSE /\ UNCHANGED <<observedCancel, failed, fileIdx>>
          /\ \E d \in PageImages, io \in {"ok", "openfails", "placefails"} :
             \E h \in HeightChoices(d, canvas[1]) :
               AddFittedImageSlide("render", d, IsVeryFirst /\ pageIdx = 0, h, io)
          /\ IF pageIdx + 1 >= curN
             THEN pc' = "gui_copy" /\ pageIdx' = 0
             ELSE pageIdx' = pageIdx + 1 /\ UNCHANGED pc
  /\ UNCHANGED <<files, curN, viaRaster, rendered, outputWritten, saveCalled, report, exitCode>>
  /\ UNCHANGED <<envVars, guiRest, uiQueue, cancelOf, lateSlides, directUi>>

\* One rendered image of a .pptx: the cancellation check, then
\* add_fitted_image_slide; an exception is logged and the loop goes on.
GuiRasterImage ==
  /\ variant = "gui" /\ pc = "gui_raster"
  /\ IF cancelFlag
     THEN /\ observedCancel' = TRUE
          /\ pc' = "gui_loop"
          /\ fileIdx' = fileIdx + 1
          /\ UNCHANGED <<pageIdx, failed, slides, canvas, resizes, lastFit>>
     ELSE /\ UNCHANGED observedCancel
          /\ \E d \in PageImages, io \in {"ok", "openfails", "placefails"} :
             \E h \in HeightChoices(d, canvas[1]) :
               /\ AddFittedImageSlide("render", d, IsVeryFirst /\ pageIdx = 0, h, io)
               /\ StepDone("gui_loop", FALSE)
  /\ UNCHANGED <<files, curN, viaRaster, rendered, outputWritten, saveCalled, report, exitCode>>
  /\ UNCHANGED <<envVars, guiRest, uiQueue, cancelOf, lateSlides, directUi>>

\* One slide of the safe copy: the cancellation check, a new slide from the
\* blank layout, then copy_slide_elements.
GuiCopySlide ==
  /\ variant = "gui" /\ pc = "gui_copy"
  /\ IF cancelFlag
     THEN /\ observedCancel' = TRUE
          /\ pc' = "gui_loop"
          /\ fileIdx' = fileIdx + 1
          /\ UNCHANGED <<pageIdx, failed, slides>>
     ELSE /\ UNCHANGED observedCancel
          /\ LET f == files[fileIdx] IN
             \/ /\ slides' = Append(slides, Slide(f, pageIdx + 1, "copy"))
                /\ StepDone("gui_loop", FALSE)
             \/ \* the slide is created, then reading the source slide raises
                /\ slides' = Append(slides, Slide(f, pageIdx + 1, "copy"))
                /\ StepDone("gui_loop", TRUE)
             \/ \* add_slide raises
                /\ UNCHANGED slides
                /\ StepDone("gui_loop", TRUE)
  /\ UNCHANGED <<files, curN, viaRaster, rendered, canvas, lastFit, outputWritten, saveCalled,
                 report, exitCode, resizes>>
  /\ UNCHANGED <<envVars, guiRest, uiQueue, cancelOf, lateSlides, directUi>>

\* One page of process_pdf: add_fitted_image_slide, matching the aspect ratio
\* for the first page of the first file.
GuiPdfPage ==
  /\ variant = "gui" /\ pc = "gui_pdf"
  /\ \E d \in PageImages, io \in {"ok", "placefails"} :
     \E h \in HeightChoices(d, canvas[1]) :
       /\ AddFittedImageSlide("pdf", d, IsVeryFirst /\ pageIdx = 0, h, io)
       /\ StepDone("gui_loop", lastFit'.outcome \in {"raised", "zerodiv"})
  /\ lateSlides' = IF cancelFlag THEN Min(lateSlides + 1, 2) ELSE lateSlides
  /\ UNCHANGED <<files, curN, viaRaster, rendered, outputWritten, saveCalled, report, exitCode>>
  /\ UNCHANGED <<envVars, guiRest, uiQueue, observedCancel, cancelOf, directUi>>

\* Faulty variant of the end of the try block: the flag is not read again.
GuiSaveIgnoresCancel ==
  /\ variant = "gui" /\ pc = "gui_save"
  /\ pc' = "gui_finally"
  /\ saveCalled' = TRUE
  /\ UNCHANGED observedCancel
  /\ \/ /\ outputWritten' = TRUE
        /\ report' = "success"
        /\ uiQueue' = Append(uiQueue, "showinfo")
     \/ /\ outputWritten' = FALSE
        /\ report' = "failure"
        /\ uiQueue' = Append(uiQueue, "showerror")
  /\ UNCHANGED <<files, fileIdx, pageIdx, curN, viaRaster, rendered, slides, canvas, lastFit,
                 exitCode, failed, resizes>>
  /\ UNCHANGED <<envVars, guiRest, cancelOf, lateSlides, directUi>>

\* The end of do_combine's try block: save unless cancelled.
GuiSave ==
  /\ variant = "gui" /\ pc = "gui_save"
  /\ pc' = "gui_finally"
  /\ IF ~cancelFlag
     THEN /\ saveCalled' = TRUE
          /\ UNCHANGED observedCancel
          /\ \/ /\ outputWritten' = TRUE
                /\ report' = "success"
                /\ uiQueue' = Append(uiQueue, "showinfo")
             \/ \* save raises
                /\ outputWritten' = FALSE
                /\ report' = "failure"
                /\ uiQueue' = Append(uiQueue, "showerror")
     ELSE /\ observedCancel' = TRUE
          /\ UNCHANGED <<saveCalled, outputWritten, report, uiQueue>>
  /\ UNCHANGED <<files, fileIdx, pageIdx, curN, viaRaster, rendered, slides, canvas, lastFit,
                 exitCode, failed, resizes>>
  /\ UNCHANGED <<envVars, guiRest, cancelOf, lateSlides, directUi>>

\* The finally block of do_combine schedules three callbacks, one call each.
\* The first re-enables the Combine button.
GuiFinallyCombine ==
  /\ variant = "gui" /\ pc = "gui_finally"
  /\ uiQueue' = Append(uiQueue, "enableCombine")
  /\ pc' = "gui_tail"
  /\ tailTwo' = tailTwo + 1
  \* nothing reads do_combine's locals from here on
  /\ files' = <<>> /\ fileIdx' = 0 /\ pageIdx' = 0 /\ curN' = 0 /\ viaRaster' = FALSE
  /\ rendered' = "none"
  /\ slides' = <<>> /\ canvas' = <<0, 0>> /\ lastFit' = NoFit /\ failed' = {}
  /\ resizes' = <<>>
  /\ UNCHANGED <<outputWritten, saveCalled, report, exitCode>>
  /\ UNCHANGED <<fieldsSet, cancelFlag, observedCancel, combineButton, cancelButton,
                 progressOn, dialogs, runs, cancelling, lateSlides, directUi, cancelOf, tailOne>>
  /\ UNCHANGED envVars

\* The second disables the Cancel button.
GuiFinallyCancel ==
  /\ variant = "gui" /\ tailTwo > 0
  /\ uiQueue' = Append(uiQueue, "disableCancel")
  /\ tailTwo' = tailTwo - 1
  /\ tailOne' = tailOne + 1
  /\ UNCHANGED <<fieldsSet, cancelFlag, observedCancel, combineButton, cancelButton,
                 progressOn, dialogs, runs, cancelling, lateSlides, directUi, cancelOf>>
  /\ UNCHANGED <<envVars, runVars>>

\* The third stops the progress bar; the worker thread then ends.
GuiFinallyProgress ==
  /\ variant = "gui" /\ tailOne > 0
  /\ uiQueue' = Append(uiQueue, "stopProgress")
  /\ tailOne' = tailOne - 1
  /\ UNCHANGED <<fieldsSet, cancelFlag, observedCancel, combineButton, cancelButton,
                 progressOn, dialogs, runs, cancelling, lateSlides, directUi, cancelOf, tailTwo>>
  /\ UNCHANGED <<envVars, runVars>>

GuiNext ==
  \/ BrowseFolders \/ ClickCombine \/ CancelBegin \/ CancelEnd \/ UiRunCallback
  \/ GuiCollect \/ GuiBase \/ GuiNextFile \/ GuiRasterImage \/ GuiCopySlide \/ GuiPdfPage
  \/ GuiSave \/ GuiFinallyCombine \/ GuiFinallyCancel \/ GuiFinallyProgress

\* A session of several runs on a small folder of candidate files.
SessionPool == { f \in FilePool : f.n <= 1 /\ (IsPptx(f) \/ IsPdf(f)) /\ NotLock(f) }

InitSession ==
  /\ variant = "gui"
  /\ NoCopy
  /\ dirExists = TRUE
  /\ dir \in { d \in SUBSET SessionPool : Cardinality(d) <= MaxSessionFiles }
  /\ pdfSupport = TRUE
  /\ runLimit = MaxRuns
  /\ canUseAppleScript \in BOOLEAN
  /\ convertImages = TRUE
  /\ pc = "idle"
  /\ FreshRun
  /\ InitGuiIdle

SpecSession == InitSession /\ [][GuiNext]_vars

\* ------------------------------------------------ the fit, on its own inputs
FitCanvases == ((1..MaxCanvasDim) \X (1..MaxCanvasDim)) \cup CanvasSizes

InitFit ==
  /\ variant = "fit"
  /\ NoCopy
  /\ dirExists = FALSE
  /\ dir = {}
  /\ pdfSupport = TRUE
  /\ canUseAppleScript = FALSE
  /\ convertImages = FALSE
  /\ runLimit = 0
  /\ pc = "fit"
  /\ FreshRun
  /\ InitGuiIdle

\* The fit of process_pdf (CLI) on any image and canvas.
FitCli ==
  /\ variant = "fit"
  /\ \E d \in ImgDims, cv \in FitCanvases : lastFit' = CliInsertion(d, cv, "ok")
  /\ UNCHANGED <<pc, files, fileIdx, pageIdx, curN, viaRaster, rendered, slides, canvas,
                 outputWritten, saveCalled, report, exitCode, failed, resizes>>
  /\ UNCHANGED <<envVars, guiVars>>

\* add_fitted_image_slide without matching on any image and canvas.
FitGui ==
  /\ variant = "fit"
  /\ \E d \in ImgDims, cv \in FitCanvases : lastFit' = GuiInsertion(d, cv, FALSE, 0, "ok")
  /\ UNCHANGED <<pc, files, fileIdx, pageIdx, curN, viaRaster, rendered, slides, canvas,
                 outputWritten, saveCalled, report, exitCode, failed, resizes>>
  /\ UNCHANGED <<envVars, guiVars>>

\* add_fitted_image_slide with matching: the first page of a run that
\* started from Presentation(), so on the blank canvas.
FitGuiMatch ==
  /\ variant = "fit"
  /\ \E d \in ImgDims : \E h \in HeightChoices(d, BlankCanvas[1]) :
       lastFit' = GuiInsertion(d, BlankCanvas, TRUE, h, "ok")
  /\ UNCHANGED <<pc, files, fileIdx, pageIdx, curN, viaRaster, rendered, slides, canvas,
                 outputWritten, saveCalled, report, exitCode, failed, resizes>>
  /\ UNCHANGED <<envVars, guiVars>>

FitNext == FitCli \/ FitGui \/ FitGuiMatch
SpecFit == InitFit /\ [][FitNext]_vars

\* ------------------------------------- copy_slide_elements, on its own inputs
\* A source shape: its kind, and where handling it raises.  "picture",
\* "textbox" and "autoshape" are the kinds the copy rebuilds; a "placeholder"
\* has a text frame but neither of the two rebuilt types; a "table" has no
\* text frame.  Fault "read" raises before anything is added (shape_type, the
\* image blob or the add_* call); fault "text" raises in the copy of the text,
\* after add_textbox / add_shape.
ShapeKinds == {"picture", "textbox", "autoshape", "placeholder", "table"}
ShapeFaults == {"none", "read", "text"}
Shapes == [kind : ShapeKinds, fault : ShapeFaults]

RECURSIVE SeqsUpTo(_, _)
SeqsUpTo(S, n) ==
  IF n = 0 THEN {<<>>}
  ELSE LET shorter == SeqsUpTo(S, n - 1)
       IN shorter \cup { Append(q, x) : q \in { r \in shorter : Len(r) = n - 1 }, x \in S }

\* Faulty variant: every shape with a text frame is rebuilt as a text box.
ShapeAddedAnyText(sh) == sh.kind # "table" /\ sh.fault # "read"

\* The shape gets a counterpart in target_slide.
ShapeAdded(sh) == sh.kind \in {"picture", "textbox", "autoshape"} /\ sh.fault # "read"

\* Handling the shape raises, and the handler prints the warning.
ShapeRaises(sh) ==
  \/ sh.fault = "read"
  \/ sh.fault = "text" /\ sh.kind \in {"textbox", "autoshape"}

InitCopy ==
  /\ variant = "copy"
  /\ shapes \in SeqsUpTo(Shapes, MaxShapes)
  /\ shapeIdx = 0
  /\ target = <<>>
  /\ warnings = 0
  /\ dirExists = FALSE
  /\ dir = {}
  /\ pdfSupport = TRUE
  /\ canUseAppleScript = FALSE
  /\ convertImages = FALSE
  /\ runLimit = 0
  /\ pc = "copy"
  /\ FreshRun
  /\ InitGuiIdle

\* One iteration of the loop over source_slide.shapes.
CopyShape ==
  /\ variant = "copy" /\ pc = "copy" /\ shapeIdx < Len(shapes)
  /\ LET sh == shapes[shapeIdx + 1] IN
     /\ target' = IF ShapeAdded(sh)
                  THEN Append(target, [idx |-> shapeIdx + 1, kind |-> sh.kind,
                                       text |-> ~ShapeRaises(sh)])
                  ELSE target
     /\ warnings' = IF ShapeRaises(sh) THEN warnings + 1 ELSE warnings
  /\ shapeIdx' = shapeIdx + 1
  /\ UNCHANGED <<shapes, variant, dirExists, dir, pdfSupport, canUseAppleScript,
                 convertImages, runLimit>>
  /\ UNCHANGED <<runVars, guiVars>>

\* The loop is over: the call returns.
CopyReturn ==
  /\ variant = "copy" /\ pc = "copy" /\ shapeIdx = Len(shapes)
  /\ pc' = "copied"
  /\ UNCHANGED <<files, fileIdx, pageIdx, curN, viaRaster, rendered, slides, canvas, lastFit,
                 outputWritten, saveCalled, report, exitCode, failed, resizes>>
  /\ UNCHANGED <<envVars, guiVars>>

CopyNext == CopyShape \/ CopyReturn
SpecCopy == InitCopy /\ [][CopyNext]_vars

Init == InitCli \/ InitGui
Next == CliNext \/ GuiNext
Spec == Init /\ [][Next]_vars

\* ---------------------------------------------------------------- claims
\* The files of a folder the spec calls candidates: one of the two
\* extensions, and no lock prefix.
Candidates(d) ==
  { f \in d : (EndsWith(f.name, PptxPattern) \/ EndsWith(f.name, PdfPattern))
              /\ ~StartsWith(f.name, LockPrefix) }

NameA == <<97, 46, 112, 112, 116, 120>>
NameB == <<98, 46, 112, 100, 102>>
NameC == <<99, 46, 112, 112, 116, 120>>
SlideKeys == [i \in 1..Len(slides) |-> <<slides[i].src, slides[i].idx>>]

\* C1: the accumulator holds, at every moment, slides of candidate files only,
\* in ascending order of file name and within a file in the file's order
\* 1, 2, ...; at the save step of a run in which no transfer failed it holds
\* every slide of every candidate file.
SlidesInFileOrder ==
  /\ \A i \in 1..Len(slides) :
       \E f \in Candidates(dir) : slides[i].src = f.name /\ slides[i].idx \in 1..f.n
  /\ slides # <<>> => slides[1].idx = 1
  /\ \A i \in 1..(Len(slides) - 1) :
       \/ slides[i + 1].src = slides[i].src /\ slides[i + 1].idx = slides[i].idx + 1
       \/ NameLess(slides[i].src, slides[i + 1].src) /\ slides[i + 1].idx = 1
  /\ (saveCalled /\ failed = {} /\ pc \in {"exited", "gui_finally"}) =>
       \A f \in Candidates(dir) : \A k \in 1..f.n :
         \E i \in 1..Len(slides) : SlideKeys[i] = <<f.name, k>>

\* C1 witness: a.pptx (2), b.pdf (3), c.pptx (1) saved as a1,a2,b1,b2,b3,c1.
SixSlidesSaved ==
  /\ variant = "cli" /\ outputWritten
  /\ SlideKeys = << <<NameA, 1>>, <<NameA, 2>>, <<NameB, 1>>, <<NameB, 2>>,
                    <<NameB, 3>>, <<NameC, 1>> >>

\* C2: no collected file and no slide comes from a name with the lock prefix,
\* and a folder whose matching files are all lock files gives no candidates:
\* the run fails and nothing is saved.
LockFilesExcluded ==
  /\ \A i \in 1..Len(files) : ~StartsWith(files[i].name, LockPrefix)
  /\ \A i \in 1..Len(slides) : ~StartsWith(slides[i].src, LockPrefix)
  /\ Candidates(dir) = {} =>
       /\ files = <<>> /\ slides = <<>>
       /\ ~saveCalled /\ ~outputWritten
       /\ pc \in {"exited", "gui_finally", "gui_tail"} => report = "failure"

\* C2 witness: a run on a folder holding only the lock file has failed.
OnlyLockFileFailed ==
  /\ dir # {}
  /\ \A f \in dir : StartsWith(f.name, LockPrefix)
  /\ report = "failure"

\* C3: with no input folder or no candidate file the run reports failure,
\* never calls save, writes nothing, and the CLI exits with code 1.
NoCandidatesFails ==
  (~dirExists \/ Candidates(dir) = {}) =>
    /\ ~saveCalled /\ ~outputWritten /\ report # "success"
    /\ pc \in {"exited", "gui_finally", "gui_tail"} => report = "failure"
    /\ pc = "exited" => exitCode = 1
    /\ exitCode \in {-1, 1}

\* C3 witness: the CLI has exited on a missing folder.
MissingFolderExited == variant = "cli" /\ ~dirExists /\ pc = "exited" /\ exitCode = 1

\* C4: the CLI exits 0 exactly when save succeeded and 1 exactly when there
\* was no candidate file, the base file could not be loaded or save failed; a
\* failed save is followed by no success report, exit code 0 or success dialog.
ExitCodeMatchesOutcome ==
  /\ pc = "exited" =>
       /\ exitCode \in {0, 1}
       /\ exitCode = 0 <=> (saveCalled /\ outputWritten /\ report = "success")
       /\ exitCode = 1 <=>
            \/ files = <<>>
            \/ ~saveCalled /\ files # <<>> /\ files[1].name \in failed
            \/ saveCalled /\ ~outputWritten
  /\ pc # "exited" => exitCode = -1
  /\ (saveCalled /\ ~outputWritten) =>
       /\ report = "failure"
       /\ exitCode # 0
       /\ "showinfo" \notin dialogs
       /\ \A i \in 1..Len(uiQueue) : uiQueue[i] # "showinfo"

\* C4 witness: the CLI has exited after a failed save.
SaveFailedExited == variant = "cli" /\ pc = "exited" /\ saveCalled /\ ~outputWritten

\* ---- the fit
Placed == lastFit.outcome = "placed"
FitCw == <<lastFit.after[1], 1>>
FitCh == <<lastFit.after[2], 1>>
\* off = (total - size) / 2
Centred(off, total, size) == RatEq(off, <<total[1] * size[2] - size[1], 2 * size[2]>>)
SameRatio == lastFit.W * lastFit.after[2] = lastFit.after[1] * lastFit.H

\* What C5 states apart from how many axes are filled: the image stays inside
\* the canvas, the fitted axis has offset 0 and the other one is centred.
FitInsideAndCentred ==
  LET f == lastFit.fit IN
  /\ RatLeq(f.new_w, FitCw) /\ RatLeq(f.new_h, FitCh)
  /\ RatLeq(<<0, 1>>, f.left) /\ RatLeq(<<0, 1>>, f.top)
  /\ f.axis = "width" =>
       RatEq(f.new_w, FitCw) /\ RatEq(f.left, <<0, 1>>) /\ Centred(f.top, FitCh, f.new_h)
  /\ f.axis = "height" =>
       RatEq(f.new_h, FitCh) /\ RatEq(f.top, <<0, 1>>) /\ Centred(f.left, FitCw, f.new_w)

\* C5 as stated: exactly one of newW = Cw, newH = Ch holds.
FitFillsExactlyOneAxis ==
  Placed => /\ FitInsideAndCentred
            /\ RatEq(lastFit.fit.new_w, FitCw) # RatEq(lastFit.fit.new_h, FitCh)

\* C5 amended: at least one of newW = Cw, newH = Ch holds, and both hold
\* exactly when the image has the canvas's aspect ratio.
FitFillsAnAxis ==
  Placed => /\ FitInsideAndCentred
            /\ RatEq(lastFit.fit.new_w, FitCw) \/ RatEq(lastFit.fit.new_h, FitCh)
            /\ (RatEq(lastFit.fit.new_w, FitCw) /\ RatEq(lastFit.fit.new_h, FitCh)) <=> SameRatio

\* C5 witness: an image wider than the canvas, fitted to the width and
\* centred with a positive top offset.
WideImageCentred ==
  /\ Placed /\ lastFit.fit.axis = "width"
  /\ RatLess(<<0, 1>>, lastFit.fit.top)
  /\ RatLess(lastFit.fit.new_h, FitCh)

\* C6: inserting an image of height 0 divides by nothing and leaves the
\* accumulator as it was: no slide, no canvas change.
ZeroHeightIsNoOp ==
  [][(/\ pc \in {"cli_pdf", "gui_pdf", "gui_raster"}
      /\ pageIdx' = pageIdx + 1
      /\ lastFit'.H = 0
      /\ lastFit'.outcome \in {"skipped", "zerodiv"})
     => (slides' = slides /\ canvas' = canvas /\ lastFit'.outcome = "skipped")]_vars

MatchedCanvasHasImageRatio ==
  lastFit.resized =>
    LET W == lastFit.W
        H == lastFit.H
        Cw == lastFit.before[1]
        f == lastFit.fit
    IN /\ lastFit.after[1] = Cw
       /\ lastFit.after[2] * W <= Cw * H
       /\ Cw * H - lastFit.after[2] * W <= W
       /\ Placed
       /\ RatEq(f.top, <<0, 1>>) /\ RatEq(f.new_h, FitCh)
       /\ RatLeq(<<0, 1>>, f.left) /\ RatLeq(f.left, <<W, 2 * H>>)
       /\ RatLeq(f.new_w, FitCw)

\* C8 witness: a matched canvas whose height had to be rounded, so that the
\* image is placed with a small positive left offset.
MatchedWithRounding ==
  /\ lastFit.resized /\ Placed
  /\ lastFit.after # lastFit.before
  /\ RatLess(<<0, 1>>, lastFit.fit.left)

\* C9: a run whose worker has seen the cancellation flag set never calls
\* save, writes no output and reports no success.
CancelledNeverSaves ==
  observedCancel =>
    /\ ~saveCalled /\ ~outputWritten /\ report # "success"
    /\ "showinfo" \notin dialogs
    /\ \A i \in 1..Len(uiQueue) : uiQueue[i] # "showinfo"

\* C9 witness: a worker that saw the flag inside a file's loop has ended
\* its run.
CancelledRunEnded ==
  /\ observedCancel /\ pc = "gui_tail" /\ ~saveCalled /\ runs >= 1

\* C10: at most one worker is inside do_combine at any time.
AtMostOneWorker == ActiveWorkers <= 1

\* C11: a failure on one file never ends the run: a run in which the transfer
\* of some file failed, whatever the file's position, still reaches the save
\* step (unless it was cancelled).
PerFileFailureSkipped ==
  (failed # {} /\ pc \in {"exited", "gui_finally"} /\ ~observedCancel) => saveCalled

\* ---- the safe copy
\* The positions of the source shapes that are in the set S of indices, in
\* source order.
Positions(S) ==
  SelectSeq([i \in 1..Len(shapes) |-> i], LAMBDA i : i \in S)
ShapeIdxs == 1..Len(shapes)
TargetPositions == [i \in 1..Len(target) |-> target[i].idx]
Supported(sh) == sh.kind \in {"picture", "textbox", "autoshape"}
SupportedAndSound(sh) == Supported(sh) /\ ~ShapeRaises(sh)

\* C12 as stated: the call returns with exactly the supported shapes that did
\* not fail rebuilt, in source order, and one warning for each other shape.
CopyKeepsExactlySupported ==
  pc = "copied" =>
    /\ TargetPositions = Positions({i \in ShapeIdxs : SupportedAndSound(shapes[i])})
    /\ warnings = Len(shapes) - Len(Positions({i \in ShapeIdxs : SupportedAndSound(shapes[i])}))

\* C12 amended: the call always returns; every supported shape that does not
\* raise is rebuilt with its text, in source order; a shape of another kind is
\* skipped without a warning; a shape that raises gives one warning, and
\* leaves a counterpart without text when it raised in the copy of the text.
CopyRebuildsSupported ==
  /\ pc \in {"copy", "copied"}
  /\ shapeIdx <= Len(shapes)
  /\ pc = "copied" =>
       /\ shapeIdx = Len(shapes)
       /\ TargetPositions = Positions({i \in ShapeIdxs : Supported(shapes[i]) /\ shapes[i].fault # "read"})
       /\ \A i \in 1..Len(target) :
            /\ target[i].kind = shapes[target[i].idx].kind
            /\ target[i].text = ~ShapeRaises(shapes[target[i].idx])
       /\ warnings = Len(Positions({i \in ShapeIdxs : ShapeRaises(shapes[i])}))

\* C12 witness: a table and a picture were copied: the table is skipped
\* without a warning and the picture is the only shape of the target.
TableSkippedPictureCopied ==
  /\ pc = "copied"
  /\ shapes = <<[kind |-> "table", fault |-> "none"], [kind |-> "picture", fault |-> "none"]>>
  /\ TargetPositions = <<2>>
  /\ warnings = 0

\* C13: a run that ends with a setup error (the input folder is missing, there
\* is no candidate file, or the output cannot be written) has opened no source
\* file and transferred no slide.
SetupErrorsBeforeAnyWork ==
  (/\ pc \in {"exited", "gui_finally"}
   /\ report = "failure"
   /\ (~dirExists \/ files = <<>> \/ (saveCalled /\ ~outputWritten)))
  => (slides = <<>> /\ fileIdx = 0 /\ failed = {})

\* C14: once the flag is set, the GUI worker appends at most the slide it is
\* inserting: no second insertion begins with the flag set.
CancelStopsAppending == lateSlides <= 1

\* C15: the GUI worker never uses a widget or a Tk variable itself: all it
\* does to the interface goes through root.after.
WorkerNeverTouchesUi == ~directUi

\* ---- base selection
AfterBasePcs == {"cli_loop", "cli_copy", "cli_pdf", "cli_save",
                 "gui_loop", "gui_raster", "gui_copy", "gui_pdf", "gui_save"}
RunSaved == saveCalled /\ pc \in {"exited", "gui_finally"}

\* C16: when the first file of the list is a .pptx its slides are the first
\* slides of the accumulator, unchanged, and the loop starts at the second
\* file and adds no other slide for it; otherwise the accumulator starts as
\* the empty presentation and the loop starts at the first file; no slide of
\* a file is in the accumulator twice, and a run that reaches the save step
\* uncancelled has gone through every file of the list.
BaseIsFirstFileOrBlank ==
  /\ (pc \in AfterBasePcs \/ RunSaved) =>
       LET first == files[1] IN
       IF IsPptx(first)
       THEN /\ fileIdx >= 2
            /\ Len(slides) >= first.n
            /\ SubSeq(slides, 1, first.n) = BaseSlides(first)
            /\ \A i \in (first.n + 1)..Len(slides) :
                 slides[i].src # first.name /\ slides[i].kind # "base"
       ELSE /\ fileIdx >= 1
            /\ \A i \in 1..Len(slides) : slides[i].kind # "base"
            /\ (fileIdx = 1 /\ pc \in {"cli_loop", "gui_loop"}) =>
                 (slides = <<>> /\ canvas = BlankCanvas)
  /\ \A i, j \in 1..Len(slides) : SlideKeys[i] = SlideKeys[j] => i = j
  /\ ((pc \in {"cli_save", "gui_save"} \/ RunSaved) /\ ~observedCancel /\ ~cancelFlag) =>
       fileIdx = Len(files) + 1

\* C16 witness: a.pptx was the base and a later file's slides were saved
\* after its two slides.
BaseKeptThenOthersSaved ==
  /\ outputWritten
  /\ Len(slides) >= 3
  /\ slides[1].kind = "base" /\ slides[2].kind = "base"
  /\ slides[3].kind \in {"copy", "pdf", "render"}

\* ---- strategies of the GUI
\* C17: in raster-conversion mode, a .pptx of the loop whose rendering is not
\* possible (no PowerPoint, no AppleScript) or failed or gave no image goes to
\* the safe copy: the step neither takes the image loop nor ends the run, and
\* when the safe copy cannot open the file either, the file is skipped.
RenderFallsBackToCopy ==
  [][(/\ variant = "gui" /\ pc = "gui_loop" /\ <<pc, fileIdx>>' # <<pc, fileIdx>>
      /\ fileIdx <= Len(files) /\ ~cancelFlag
      /\ IsPptx(files[fileIdx]) /\ convertImages
      /\ (~canUseAppleScript \/ rendered' \in {"failed", "noimage"}))
     => (/\ pc' \in {"gui_copy", "gui_loop"}
         /\ pc' = "gui_copy" => ~viaRaster'
         /\ slides' = slides /\ report' = report /\ uiQueue' = uiQueue
         /\ pc' = "gui_loop" =>
              (fileIdx' = fileIdx + 1 /\ files[fileIdx].name \in failed'))]_vars

\* C17 witness: the rendering of a .pptx failed and the safe copy has
\* transferred a slide of it.
CopiedAfterRenderFailed ==
  /\ variant = "gui" /\ convertImages /\ canUseAppleScript
  /\ rendered = "failed" /\ pc = "gui_copy" /\ pageIdx >= 1
  /\ slides[Len(slides)].kind = "copy"
  /\ slides[Len(slides)].src = files[fileIdx].name

\* C18: all the slides a file has in the accumulator were made by one
\* strategy; rendered slides exist only for a file whose rendering gave images.
OneStrategyPerFile ==
  /\ \A i, j \in 1..Len(slides) :
       slides[i].src = slides[j].src => slides[i].kind = slides[j].kind
  /\ pc = "gui_raster" => (rendered = "images" /\ viaRaster)
  /\ pc = "gui_copy" => (rendered # "images" /\ ~viaRaster)
  /\ \A i \in 1..Len(slides) :
       slides[i].kind = "render" => (convertImages /\ canUseAppleScript)

\* C18 witness: one run holds two rendered slides of a.pptx and a copied
\* slide of c.pptx.
RenderedAndCopiedFiles ==
  /\ \E i \in 1..Len(slides) : \E j \in 1..Len(slides) :
       /\ i # j
       /\ slides[i].src = NameA /\ slides[i].kind = "render"
       /\ slides[j].src = NameA /\ slides[j].kind = "render"
  /\ \E i \in 1..Len(slides) : slides[i].src = NameC /\ slides[i].kind = "copy"

\* C19: no transfer or save step takes a slide out of the accumulator or
\* moves one: the accumulator before the step is a prefix of the accumulator
\* after it, a step in which a file fails included, and a failing step adds
\* at most the slide it had created.
AccumulatorOnlyGrows ==
  [][(pc \in AfterBasePcs)
     => (/\ Len(slides') >= Len(slides)
         /\ SubSeq(slides', 1, Len(slides)) = slides
         /\ failed' # failed => Len(slides') <= Len(slides) + 1)]_vars

\* C19 witness: a file failed after a slide of it was appended; the slide is
\* still there, a later file's slide follows it, and the output was written.
FailedFileSlidesSaved ==
  /\ outputWritten
  /\ \E i \in 1..(Len(slides) - 1) :
       slides[i].src \in failed /\ slides[i + 1].src \notin failed

\* C20: a worker never sees a cancellation that was asked for before it was
\* started: when the latest worker has seen the flag set, the Cancel click
\* that set it was made during this worker's run.
EarlierCancelNeverSeen == observedCancel => cancelOf = runs

\* ---- the canvas of the accumulator
\* C21: after the base step and up to the end of the save step, the only step
\* that changes the canvas is the insertion of page 0 of a PDF that is the
\* first file of a GUI run started from the empty presentation (never an
\* image rendered from a .pptx); in a CLI run and in a GUI run whose first
\* file is a .pptx no step changes it, so that the saved canvas is the one
\* the base step gave (the blank canvas when a CLI run started empty).
CanvasKeptButByFirstPdfPage ==
  [][(pc \in AfterBasePcs) =>
       /\ (canvas' # canvas \/ resizes' # resizes) =>
            /\ variant = "gui" /\ pc = "gui_pdf"
            /\ pageIdx = 0 /\ fileIdx = 1 /\ IsPdf(files[1])
            /\ slides = <<>> /\ canvas = BlankCanvas
            /\ lastFit'.resized
       /\ (variant = "cli" \/ IsPptx(files[1])) =>
            (canvas' = canvas /\ resizes = <<>> /\ resizes' = <<>>)
       /\ (variant = "cli" /\ ~IsPptx(files[1])) => canvas = BlankCanvas]_vars

\* C21 witness: a GUI run whose base was a .pptx has saved a presentation
\* that holds a rendered slide and a PDF page, on a canvas never resized.
NativeBaseSavedWithRasters ==
  /\ variant = "gui" /\ outputWritten /\ Len(files) >= 3 /\ IsPptx(files[1])
  /\ resizes = <<>> /\ canvas \in CanvasSizes
  /\ \E i \in 1..Len(slides) : slides[i].kind = "render"
  /\ \E i \in 1..Len(slides) : slides[i].kind = "pdf"

====
